---------------------------- MODULE Spec2Model ----------------------------
(***************************************************************************)
(* SIRQ simulator: the per-minute simulation engine of a truck charging    *)
(* station (src/src/model.py, src/src/agents.py, src/src/config.py) and    *)
(* the driver loop that steps one or two station models (src/app.py).      *)
(*                                                                         *)
(* Units.  Floats of the source are kept as scaled integers:               *)
(*   money (bid, fee)      : cents                                         *)
(*   value_of_time         : dollars per hour                              *)
(*   price_per_kwh         : cents per kWh                                 *)
(*   energy                : 1/100 kWh                                     *)
(*   revenue               : 1/100 cent  (energy unit * price unit)        *)
(*   soc                   : 1/4 percent                                   *)
(*   preemption_premium, traffic_multiplier : tenths                       *)
(*   noise                 : hundredths;  random() draw : thousandths      *)
(***************************************************************************)
EXTENDS Integers, Sequences, FiniteSets, TLC

(***************************************************************************)
(* Bounds of the exploration.                                              *)
(***************************************************************************)
MaxChargers == 2
MaxAgents == 3
MaxSteps == 5
DayArrivalHorizon == 3
DaySteps == 250
MaxPairSteps == 3
MaxPairAgents == 2
MaxSurgeSteps == 3
MaxSurgeAgents == 3
MaxBatchRuns == 2      \* n_runs of the batch form
MaxBatchSteps == 2     \* ticks of a run of the batch
MaxLiveAgents == 3
LiveArrivalHorizon == 3
MaxLiveSteps == 16
MaxCandidateAgents == 4
MaxCandidateSteps == 4
MaxShieldAgents == 3
MaxShieldSteps == 3

(***************************************************************************)
(* Program constants.                                                      *)
(***************************************************************************)
target_soc == 85
TaperSoc == 80
SocLow == 10
SocHigh == 30
PanicPeriod == 30
MinutesPerDay == 1440
SocUnit == 4
EnergyUnit == 100

VARIABLES
    station,     \* run id -> the ChargingStationModel instance (or NoModel)
    np_random,   \* numpy's process-global generator: [seed, pos]
    py_tape,     \* seed -> draws of random.Random(seed) revealed so far
    np_tape,     \* seed -> draws of numpy's generator under that seed revealed so far
    priced,      \* a station as _update_smart_pricing leaves it, called on its own
    batch,       \* the Monte Carlo page: the locals of the batch loop, or NoBatch
    session_state,  \* st.session_state: the tables the pages share
    uploaded     \* the file of the Data Manager's uploader, or None

app_vars == <<priced, batch, session_state, uploaded>>

vars == <<station, np_random, py_tape, np_tape, priced, batch, session_state, uploaded>>

RunIds == {1, 2}
Seeds == {42, 43}
NoModel == [absent |-> TRUE]
NoBatch == [absent |-> TRUE]
None == [kind |-> "None"]
Profiles == {"CRITICAL", "STANDARD", "ECONOMY"}
Strategies == {"FIFO", "SIRQ"}

(***************************************************************************)
(* config.py                                                               *)
(***************************************************************************)
DEFAULT_CONFIG ==
    [ charger_power        |-> 150,
      battery_capacity     |-> 500,
      price_per_kwh        |-> 50,
      base_service_fee     |-> 1000,
      preemption_premium   |-> 12,
      prob_critical        |-> 20,
      prob_standard        |-> 60,
      prob_economy         |-> 20,
      traffic_multiplier   |-> 10,
      enable_smart_pricing |-> FALSE ]

\* A user_config override as the constructor takes one: a strong charger and
\* a small battery (35 percent a tick), so that a charge completes in three
\* ticks, the last one tapered.
FastConfig == [DEFAULT_CONFIG EXCEPT !.charger_power = 210, !.battery_capacity = 10]

TRUCK_PROFILES ==
    [ CRITICAL |-> [vot_range |-> <<150, 300>>, patience |-> 240],
      STANDARD |-> [vot_range |-> <<50, 80>>,   patience |-> 120],
      ECONOMY  |-> [vot_range |-> <<15, 30>>,   patience |-> 45] ]

(***************************************************************************)
(* Values the random draws are taken from.                                 *)
(***************************************************************************)
UChoices == {0, 999}                       \* random.random(), thousandths
VotChoices(p) ==                           \* np.random.uniform(vot_min, vot_max)
    CASE p = "CRITICAL" -> {150}
      [] p = "STANDARD" -> {60}
      [] OTHER          -> {20}
NoiseChoices == {90, 108}                  \* np.random.uniform(0.9, 1.1)

(***************************************************************************)
(* Helpers on sequences and numbers.                                       *)
(***************************************************************************)
Min(a, b) == IF a <= b THEN a ELSE b

\* round(n / d) to the nearest integer, halves to even (Python's round)
RoundDiv(n, d) ==
    LET q == n \div d
        r == n % d
    IN  IF 2 * r < d THEN q
        ELSE IF 2 * r > d THEN q + 1
        ELSE IF q % 2 = 0 THEN q ELSE q + 1

Indices(s) == 1..Len(s)
Range(s) == {s[i] : i \in Indices(s)}

\* all orderings of a finite set, as sequences
Orderings(S) ==
    {f \in [1..Cardinality(S) -> S] : \A i, j \in 1..Cardinality(S) : f[i] = f[j] => i = j}

RECURSIVE SumSeq(_)
SumSeq(s) == IF s = <<>> THEN 0 ELSE Head(s) + SumSeq(Tail(s))

(***************************************************************************)
(* agents.py : TruckAgent                                                  *)
(***************************************************************************)
IsQueuing(a) == a.status = "Queuing"
IsCharging(a) == a.status = "Charging"

Queuing(m) == SelectSeq(m.agents, IsQueuing)
Charging(m) == SelectSeq(m.agents, IsCharging)

\* _calculate_initial_bid: base fee plus value of time times the estimated
\* wait (15 minutes per queued truck, at least 0.1 h), the whole times noise,
\* rounded to cents.  The new agent is not yet in the schedule.
calculate_initial_bid(m, vot, noise) ==
    LET base_fee == m.config.base_service_fee
        queue_len == Len(Queuing(m))
        wait_h == (queue_len * 15 * 100) \div 60
        estimated_wait_hours == IF wait_h < 10 THEN 10 ELSE wait_h
        rational_bid == base_fee + vot * estimated_wait_hours
    IN  RoundDiv(rational_bid * noise, 100)

\* TruckAgent.__init__
TruckAgent(unique_id, m, profile_type, d) ==
    [ unique_id     |-> unique_id,
      profile_type  |-> profile_type,
      value_of_time |-> d.vot,
      soc           |-> d.soc * SocUnit,
      wait_time     |-> 0,
      status        |-> "Queuing",
      bid           |-> calculate_initial_bid(m, d.vot, d.noise) ]

\* variant: every profile raises its bid every 30 ticks
wait_any_profile_panics(a) ==
    LET w == a.wait_time + 1
        b == IF w % PanicPeriod = 0 THEN a.bid + a.value_of_time * 25 ELSE a.bid
    IN  [a EXCEPT !.wait_time = w, !.bid = b]

\* _wait, the agent's own fields: one more tick waited, and a CRITICAL agent
\* adds a quarter of its value of time to its bid every 30 ticks.
wait(a) ==
    LET w == a.wait_time + 1
        b == IF a.profile_type = "CRITICAL" /\ w % PanicPeriod = 0
             THEN a.bid + a.value_of_time * 25
             ELSE a.bid
    IN  [a EXCEPT !.wait_time = w, !.bid = b]

\* variant: the leaving test with >= for >
LeavesAtPatience(a) == a.wait_time >= TRUCK_PROFILES[a.profile_type].patience

\* _wait, the leaving test (on the agent as _wait has updated it)
LeavesImpatient(a) == a.wait_time > TRUCK_PROFILES[a.profile_type].patience

\* _charge: the energy of one minute, halved from 80 percent on
real_kwh(a, config) ==
    LET kwh_added == (config.charger_power * EnergyUnit) \div 60
    IN  IF a.soc < TaperSoc * SocUnit THEN kwh_added ELSE kwh_added \div 2

charge(a, config) ==
    LET real_soc == (real_kwh(a, config) * 100 * SocUnit) \div (config.battery_capacity * EnergyUnit)
    IN  [a EXCEPT !.soc = a.soc + real_soc]

\* variant: an agent completes where the taper starts
CompletesAtTaper(a) == a.soc >= TaperSoc * SocUnit

\* _charge, the completion test (on the agent as _charge has updated it)
Completes(a) == a.soc >= target_soc * SocUnit

(***************************************************************************)
(* model.py : ChargingStationModel                                         *)
(***************************************************************************)
\* __init__
ChargingStationModel(num_chargers, strategy, seed, config) ==
    [ num_chargers        |-> num_chargers,
      strategy            |-> strategy,
      random              |-> [seed |-> seed, pos |-> 0],
      config              |-> config,
      charging_spots      |-> num_chargers,
      agents              |-> <<>>,
      current_id          |-> 0,
      steps               |-> 0,
      kpi_energy_sold     |-> 0,
      kpi_revenue         |-> 0,
      kpi_preemptions     |-> 0,
      kpi_failed_critical |-> 0,
      kpi_balked_agents   |-> 0,
      current_price       |-> config.price_per_kwh,
      agent_log           |-> <<>>,
      system_log          |-> <<>>,
      raised              |-> "" ]     \* the exception the last call left by, if any

\* variant: the failure counted whatever the profile
log_departure_any_profile(m, agent, reason) ==
    LET failed == IF reason \in {"Left (Impatient)", "Preempted"}
                  THEN m.kpi_failed_critical + 1
                  ELSE m.kpi_failed_critical
        row == [ ID            |-> agent.unique_id,
                 Profile       |-> agent.profile_type,
                 Urgency       |-> 0,
                 Value_of_Time |-> agent.value_of_time,
                 Bid           |-> agent.bid,
                 Outcome       |-> reason,
                 Wait_Time     |-> agent.wait_time,
                 Strategy      |-> m.strategy ]
    IN  [m EXCEPT !.kpi_failed_critical = failed,
                  !.agent_log = Append(m.agent_log, row)]

\* log_departure
log_departure(m, agent, reason) ==
    LET failed == IF reason \in {"Left (Impatient)", "Preempted"} /\ agent.profile_type = "CRITICAL"
                  THEN m.kpi_failed_critical + 1
                  ELSE m.kpi_failed_critical
        row == [ ID            |-> agent.unique_id,
                 Profile       |-> agent.profile_type,
                 Urgency       |-> 0,
                 Value_of_Time |-> agent.value_of_time,
                 Bid           |-> agent.bid,
                 Outcome       |-> reason,
                 Wait_Time     |-> agent.wait_time,
                 Strategy      |-> m.strategy ]
    IN  [m EXCEPT !.kpi_failed_critical = failed,
                  !.agent_log = Append(m.agent_log, row)]

\* variant: the utilization counts the charging trucks only
surge_price_of_occupancy(m) ==
    IF ~({"surge_sensitivity", "max_price_cap"} \subseteq DOMAIN m.config)
    THEN [m EXCEPT !.raised = "KeyError"]
    ELSE LET active == Len(Charging(m))
             capacity == IF m.num_chargers >= 1 THEN m.num_chargers ELSE 1
             base_price == m.config.price_per_kwh
             new_price == (base_price * (10 * capacity + m.config.surge_sensitivity * active))
                              \div (10 * capacity)
         IN  [m EXCEPT !.current_price = Min(new_price, m.config.max_price_cap)]

\* _update_smart_pricing, lines 71-85: surge_sensitivity in tenths.  A key
\* the config does not hold raises KeyError.
surge_price(m) ==
    IF ~({"surge_sensitivity", "max_price_cap"} \subseteq DOMAIN m.config)
    THEN [m EXCEPT !.raised = "KeyError"]
    ELSE LET active == Len(Charging(m))
             queued == Len(Queuing(m))
             total_load == active + queued
             capacity == IF m.num_chargers >= 1 THEN m.num_chargers ELSE 1
             base_price == m.config.price_per_kwh
             new_price == (base_price * (10 * capacity + m.config.surge_sensitivity * total_load))
                              \div (10 * capacity)
         IN  [m EXCEPT !.current_price = Min(new_price, m.config.max_price_cap)]

\* variant: no early return for a station without smart pricing, the surge
\* of a sensitivity of 1.0 without cap
surge_whatever_the_switch(m) ==
    LET total_load == Len(Charging(m)) + Len(Queuing(m))
        capacity == IF m.num_chargers >= 1 THEN m.num_chargers ELSE 1
    IN  [m EXCEPT !.current_price =
            (m.config.price_per_kwh * (capacity + total_load)) \div capacity]

\* _update_smart_pricing
update_smart_pricing(m) ==
    IF ~m.config.enable_smart_pricing
    THEN [m EXCEPT !.current_price = m.config.price_per_kwh]
    ELSE surge_price(m)

\* _spawn_traffic: the arrival probability of the hour, in thousandths
ArrivalProb(m) ==
    LET minute == m.steps % MinutesPerDay
        hour == minute \div 60
        prob == IF (6 <= hour /\ hour < 10) \/ (15 <= hour /\ hour < 19) THEN 35
                ELSE IF 0 <= hour /\ hour < 6 THEN 5
                ELSE 15
    IN  prob * m.config.traffic_multiplier

Arrives(m, u) == u < ArrivalProb(m)

ProfileWeight(m, p) ==
    CASE p = "CRITICAL" -> m.config.prob_critical
      [] p = "STANDARD" -> m.config.prob_standard
      [] OTHER          -> m.config.prob_economy

\* variant: the id taken from the size of the active set
next_id_of_active_set(m) == Len(m.agents) + 1

\* _spawn_traffic, line 122: self.current_id += 1
next_id(m) == m.current_id + 1

\* _spawn_traffic, with the draws d = [u, np]: u of random.random(), np the
\* numpy draws of an arrival, [profile, vot, soc, noise]
spawn_traffic(m, d) ==
    LET total == m.config.prob_critical + m.config.prob_standard + m.config.prob_economy
        profile == d.np.profile
        id == next_id(m)
        agent == TruckAgent(id, m, profile, d.np)
        enters == [m EXCEPT !.current_id = id,
                            !.agents = Append(m.agents, agent)]
    IN  IF ~Arrives(m, d.u) THEN m
        ELSE IF total = 0 THEN [m EXCEPT !.raised = "ZeroDivisionError"]
        ELSE IF m.config.enable_smart_pricing
        THEN IF "max_price_tolerance" \notin DOMAIN TRUCK_PROFILES[profile]
             THEN [m EXCEPT !.raised = "KeyError"]
             ELSE IF m.current_price > TRUCK_PROFILES[profile].max_price_tolerance
             THEN [m EXCEPT !.kpi_balked_agents = m.kpi_balked_agents + 1]
             ELSE enters
        ELSE enters

\* sorted(s, key): stable, ascending in the keys ks (ks[i] is the key of s[i])
RECURSIVE SortedByKey(_, _)
SortedByKey(s, ks) ==
    IF s = <<>> THEN <<>>
    ELSE LET i == CHOOSE i \in Indices(s) :
                      /\ \A j \in Indices(s) : ks[i] <= ks[j]
                      /\ \A j \in 1..(i - 1) : ks[j] > ks[i]
             drop(t) == SubSeq(t, 1, i - 1) \o SubSeq(t, i + 1, Len(t))
         IN  <<s[i]>> \o SortedByKey(drop(s), drop(ks))

ById(s) == SortedByKey(s, [i \in Indices(s) |-> s[i].unique_id])
ByBid(s) == SortedByKey(s, [i \in Indices(s) |-> s[i].bid])
\* reverse=True keeps the order of equal bids
ByBidReverse(s) == SortedByKey(s, [i \in Indices(s) |-> 0 - s[i].bid])

Ids(s) == {s[i].unique_id : i \in Indices(s)}

\* variant: the while loop keeps one spot in reserve
AdmittedBelowLastSpot(m, queue) ==
    IF m.charging_spots > 1
    THEN SubSeq(queue, 1, Min(m.charging_spots - 1, Len(queue)))
    ELSE <<>>

\* the while loop of both policies: the trucks popped while a spot is free
Admitted(m, queue) ==
    IF m.charging_spots > 0
    THEN SubSeq(queue, 1, Min(m.charging_spots, Len(queue)))
    ELSE <<>>

SetCharging(agents, ids) ==
    [i \in Indices(agents) |->
        IF agents[i].unique_id \in ids THEN [agents[i] EXCEPT !.status = "Charging"]
        ELSE agents[i]]

\* variant: the FIFO queue ordered by bid, highest first
logic_fifo_by_bid(m) ==
    LET queue == ByBidReverse(Queuing(m))
        trucks == Admitted(m, queue)
    IN  [m EXCEPT !.agents = SetCharging(m.agents, Ids(trucks)),
                  !.charging_spots = m.charging_spots - Len(trucks)]

\* _logic_fifo
logic_fifo(m) ==
    LET queue == ById(Queuing(m))
        trucks == Admitted(m, queue)
    IN  [m EXCEPT !.agents = SetCharging(m.agents, Ids(trucks)),
                  !.charging_spots = m.charging_spots - Len(trucks)]

\* variant: the test of line 152 without the CRITICAL exemption
OutBidsAnyProfile(highest_bidder, victim, premium) ==
    highest_bidder.bid * 10 > victim.bid * premium

\* variant: the test of line 152 with >= for >
ReachesThreshold(highest_bidder, victim, premium) ==
    /\ highest_bidder.bid * 10 >= victim.bid * premium
    /\ victim.profile_type # "CRITICAL"

\* _logic_sirq, the test of line 152
PreemptionTest(highest_bidder, victim, premium) ==
    /\ highest_bidder.bid * 10 > victim.bid * premium
    /\ victim.profile_type # "CRITICAL"

\* variant: a CRITICAL charger passed over, the victim being the lowest bid
\* among the other chargers
PreemptionFallsThrough(m, queue, chargers) ==
    LET others == SelectSeq(chargers, LAMBDA c : c.profile_type # "CRITICAL")
    IN  IF queue # <<>> /\ others # <<>>
        THEN LET highest_bidder == queue[1]
                 victim == ByBid(others)[1]
             IN  [ fires |-> PreemptionTest(highest_bidder, victim, m.config.preemption_premium),
                   highest_bidder |-> highest_bidder,
                   victim |-> victim ]
        ELSE [fires |-> FALSE]

\* _logic_sirq, the preemption branch: the queue left by the while loop and
\* the chargers listed before it
Preemption(m, queue, chargers) ==
    IF queue # <<>> /\ chargers # <<>>
    THEN LET highest_bidder == queue[1]
             victim == ByBid(chargers)[1]
         IN  [ fires |-> PreemptionTest(highest_bidder, victim, m.config.preemption_premium),
               highest_bidder |-> highest_bidder,
               victim |-> victim ]
    ELSE [fires |-> FALSE]

\* variant: the head of the queue evicts every charger it out-bids, not
\* only the one with the lowest bid
logic_sirq_cascade(m) ==
    LET queue == ByBidReverse(Queuing(m))
        chargers == Charging(m)
        trucks == Admitted(m, queue)
        rest == SubSeq(queue, Len(trucks) + 1, Len(queue))
        m1 == [m EXCEPT !.agents = SetCharging(m.agents, Ids(trucks)),
                        !.charging_spots = m.charging_spots - Len(trucks)]
        OutBid(c) == PreemptionTest(rest[1], c, m.config.preemption_premium)
        RECURSIVE LogPreempted(_, _)
        LogPreempted(n, victims) ==
            IF victims = <<>> THEN n
            ELSE LET l == log_departure(n, Head(victims), "Preempted")
                 IN  LogPreempted([l EXCEPT !.kpi_preemptions = l.kpi_preemptions + 1],
                                  Tail(victims))
    IN  IF rest # <<>> /\ SelectSeq(chargers, OutBid) # <<>>
        THEN LET m2 == LogPreempted(m1, SelectSeq(ByBid(chargers), OutBid))
             IN  [m2 EXCEPT !.agents = SetCharging(m2.agents, {rest[1].unique_id})]
        ELSE m1

\* _logic_sirq
logic_sirq(m) ==
    LET queue == ByBidReverse(Queuing(m))
        chargers == Charging(m)
        trucks == Admitted(m, queue)
        rest == SubSeq(queue, Len(trucks) + 1, Len(queue))
        m1 == [m EXCEPT !.agents = SetCharging(m.agents, Ids(trucks)),
                        !.charging_spots = m.charging_spots - Len(trucks)]
        p == Preemption(m1, rest, chargers)
    IN  IF p.fires
        THEN LET m2 == log_departure(m1, p.victim, "Preempted")
             IN  [m2 EXCEPT !.kpi_preemptions = m2.kpi_preemptions + 1,
                            !.agents = SetCharging(m2.agents, {p.highest_bidder.unique_id})]
        ELSE m1

\* variant: the SIRQ logic run whatever the strategy
queue_logic_sirq_always(m) == logic_sirq(m)

\* step, lines 53-56
queue_logic(m) ==
    IF m.strategy = "FIFO" THEN logic_fifo(m)
    ELSE IF m.strategy = "SIRQ" THEN logic_sirq(m)
    ELSE m

\* variant: the wait counted while charging too
AgentStep_counts_every_tick(a, config) ==
    IF a.status = "Charging"
    THEN [charge(a, config) EXCEPT !.wait_time = a.wait_time + 1]
    ELSE IF a.status = "Queuing" THEN wait(a)
    ELSE a

\* TruckAgent.step
AgentStep(a, config) ==
    IF a.status = "Charging" THEN charge(a, config)
    ELSE IF a.status = "Queuing" THEN wait(a)
    ELSE a

\* the reason an agent leaves in its step, "" when it stays
Leaves(a, config) ==
    LET b == AgentStep(a, config)
    IN  IF a.status = "Charging" /\ Completes(b) THEN "Completed"
        ELSE IF a.status = "Queuing" /\ LeavesImpatient(b) THEN "Left (Impatient)"
        ELSE ""

Leaving(m) == {m.agents[i].unique_id : i \in {j \in Indices(m.agents) : Leaves(m.agents[j], m.config) # ""}}

AgentOf(m, id) == m.agents[CHOOSE i \in Indices(m.agents) : m.agents[i].unique_id = id]

RECURSIVE LogLeaving(_, _, _)
LogLeaving(m, old, order) ==
    IF order = <<>> THEN m
    ELSE LET a == AgentOf(old, Head(order))
         IN  LogLeaving(log_departure(m, AgentStep(a, old.config), Leaves(a, old.config)),
                        old, Tail(order))

\* variant: the revenue of a charge assigned to the counter, not added
overwrite_revenue(total, amount) == amount

\* _charge, line 85: kpi_revenue += real_kwh * price_per_kwh
add_revenue(total, amount) == total + amount

\* schedule.step() of RandomActivation: every agent of the schedule steps
\* once, in the shuffled order.  An agent's step reads and writes its own
\* fields, adds to the counters and appends its departure, so the order
\* shows only in the order of the departure rows: order lists the agents
\* that leave, as the shuffle places them.
schedule_step(m, order) ==
    LET stepped == [i \in Indices(m.agents) |-> AgentStep(m.agents[i], m.config)]
        completed == {i \in Indices(m.agents) : Leaves(m.agents[i], m.config) = "Completed"}
        revenue == SumSeq([i \in Indices(m.agents) |->
                      IF m.agents[i].status = "Charging"
                      THEN real_kwh(m.agents[i], m.config) * m.config.price_per_kwh
                      ELSE 0])
        keep(a) == a.unique_id \notin Leaving(m)
        logged == LogLeaving(m, m, order)
    IN  [logged EXCEPT !.agents = SelectSeq(stepped, keep),
                       !.charging_spots = m.charging_spots + Cardinality(completed),
                       !.kpi_revenue = add_revenue(m.kpi_revenue, revenue),
                       !.steps = m.steps + 1]

\* _log_system_state
log_system_state(m) ==
    LET row == [ Step          |-> m.steps,
                 Total_Revenue |-> RoundDiv(m.kpi_revenue, 100),
                 Queue_Length  |-> Len(Queuing(m)),
                 Strategy      |-> m.strategy,
                 Current_Price |-> m.current_price,
                 Balked_Agents |-> m.kpi_balked_agents ]
    IN  [m EXCEPT !.system_log = Append(m.system_log, row)]

\* step, up to the queue logic
AfterQueueLogic(m, d) == queue_logic(spawn_traffic(update_smart_pricing(m), d))

\* variant: the queue logic run once more after the agents have advanced
step_admits_after_advance(m, d, order) ==
    LET p == update_smart_pricing(m)
        a == spawn_traffic(p, d)
        n == log_system_state(queue_logic(schedule_step(AfterQueueLogic(m, d), order)))
    IN  IF p.raised # "" THEN p
        ELSE IF a.raised # "" THEN [a EXCEPT !.random = [a.random EXCEPT !.pos = a.random.pos + 1]]
        ELSE [n EXCEPT !.random = [n.random EXCEPT !.pos = n.random.pos + 1]]

\* variant: the snapshot appended before the agents advance
step_logs_before_advance(m, d, order) ==
    LET p == update_smart_pricing(m)
        a == spawn_traffic(p, d)
        n == schedule_step(log_system_state(AfterQueueLogic(m, d)), order)
    IN  IF p.raised # "" THEN p
        ELSE IF a.raised # "" THEN [a EXCEPT !.random = [a.random EXCEPT !.pos = a.random.pos + 1]]
        ELSE [n EXCEPT !.random = [n.random EXCEPT !.pos = n.random.pos + 1]]

\* step
step(m, d, order) ==
    LET p == update_smart_pricing(m)
        a == spawn_traffic(p, d)
        n == log_system_state(schedule_step(AfterQueueLogic(m, d), order))
    IN  IF p.raised # "" THEN p
        ELSE IF a.raised # "" THEN [a EXCEPT !.random = [a.random EXCEPT !.pos = a.random.pos + 1]]
        ELSE [n EXCEPT !.random = [n.random EXCEPT !.pos = n.random.pos + 1]]

(***************************************************************************)
(* The draws of one step.  b bounds the exploration: the agents created    *)
(* (b.agents), the last tick of an arrival (b.horizon), the ticks stepped  *)
(* (b.steps), and the values the numpy draws are taken from.               *)
(***************************************************************************)
NoArrival == [profile |-> "", vot |-> 0, soc |-> 0, noise |-> 0]

ArrivalAllowed(m, b) == m.current_id < b.agents /\ m.steps < b.horizon

MixTotal(m) == m.config.prob_critical + m.config.prob_standard + m.config.prob_economy

\* an arrival reads np.random once the weights are computed (lines 108-112),
\* in a step the pricing has not left by an exception
ReadsNumpy(m, u) ==
    /\ update_smart_pricing(m).raised = ""
    /\ Arrives(m, u)
    /\ MixTotal(m) # 0

SpawnDraws(m, b) ==
    {[u |-> u, np |-> NoArrival] :
        u \in {v \in UChoices : \/ ~Arrives(m, v)
                                 \/ (ArrivalAllowed(m, b) /\ MixTotal(m) = 0)}}
    \cup
    UNION {
      {[u |-> u, np |-> [profile |-> p, vot |-> v, soc |-> s, noise |-> n]] :
          u \in {w \in UChoices : Arrives(m, w) /\ ArrivalAllowed(m, b)},
          v \in VotChoices(p), s \in b.socs, n \in b.noises} :
      p \in {q \in Profiles : ProfileWeight(m, q) > 0}}

\* the driver keeps stepping, until a step raises; the exploration follows
\* it while a truck is in the station or one can still arrive
Busy(m, b) ==
    /\ m.raised = ""
    /\ m.steps < b.steps
    /\ (m.agents # <<>> \/ ArrivalAllowed(m, b))

\* m.step() of a driver loop, for the model of run r.  A generator seeded
\* once and read forward gives a fresh value at every draw.
StepWithin(r, b) ==
    /\ station[r] # NoModel
    /\ Busy(station[r], b)
    /\ \E d \in SpawnDraws(station[r], b) :
         \E order \in Orderings(Leaving(AfterQueueLogic(station[r], d))) :
            /\ station' = [station EXCEPT ![r] = step(station[r], d, order)]
            /\ np_random' = IF ReadsNumpy(station[r], d.u)
                            THEN [np_random EXCEPT !.pos = np_random.pos + 1]
                            ELSE np_random
    /\ UNCHANGED <<py_tape, np_tape>>
    /\ UNCHANGED app_vars

InitOne(chargers, configs) ==
    /\ \E n \in chargers, s \in Strategies, c \in configs :
          station = [r \in RunIds |->
                        IF r = 1 THEN ChargingStationModel(n, s, 42, c) ELSE NoModel]
    /\ np_random = [seed |-> 42, pos |-> 0]
    /\ py_tape = [s \in Seeds |-> <<>>]
    /\ np_tape = [s \in Seeds |-> <<>>]
    /\ priced = NoModel
    /\ batch = NoBatch
    /\ session_state = [monte_carlo_df |-> None, agent_level_df |-> None]
    /\ uploaded = None

(***************************************************************************)
(* Spec: one station with a fast charger, stepped a few ticks, trucks      *)
(* arriving at any tick (app.py, the batch loop of lines 184-185).         *)
(***************************************************************************)
Bounds == [agents |-> MaxAgents, horizon |-> MaxSteps, steps |-> MaxSteps,
           socs |-> {SocLow}, noises |-> NoiseChoices]

Init == InitOne(1..MaxChargers, {FastConfig})

Step(r) == StepWithin(r, Bounds)

Next == \E r \in RunIds : Step(r)

Spec == Init /\ [][Next]_vars

(***************************************************************************)
(* SpecDay: one station with the default configuration, a burst of         *)
(* arrivals in the first ticks, followed until the station has emptied.    *)
(***************************************************************************)
DayBounds == [agents |-> MaxAgents, horizon |-> DayArrivalHorizon, steps |-> DaySteps,
              socs |-> {SocHigh - 1}, noises |-> {90}]

InitDay == InitOne({1}, {DEFAULT_CONFIG})

DayStep(r) == StepWithin(r, DayBounds)

NextDay == \E r \in RunIds : DayStep(r)

SpecDay == InitDay /\ [][NextDay]_vars

(***************************************************************************)
(* SpecPair: two stations in one process (app.py, lines 129-141).  A       *)
(* seeded generator is a fixed sequence: what it gave at a position under  *)
(* a seed it gives again whenever that position is read under that seed.   *)
(* The tapes hold the values revealed so far.  model.random is the model's *)
(* own generator; np.random is the one generator of the process, reseeded  *)
(* by every construction and read by every model.                          *)
(***************************************************************************)
PairBounds == [agents |-> MaxPairAgents, horizon |-> MaxPairSteps, steps |-> MaxPairSteps,
               socs |-> {SocLow}, noises |-> {90}]

PairConfig == [FastConfig EXCEPT !.prob_standard = 0]

InitPair ==
    /\ station = [r \in RunIds |-> NoModel]
    /\ np_random = [seed |-> 0, pos |-> 0]
    /\ py_tape = [s \in Seeds |-> <<>>]
    /\ np_tape = [s \in Seeds |-> <<>>]
    /\ priced = NoModel
    /\ batch = NoBatch
    /\ session_state = [monte_carlo_df |-> None, agent_level_df |-> None]
    /\ uploaded = None

\* ChargingStationModel(1, strategy, seed=seed, user_config=cfg), with a
\* traffic mix without STANDARD trucks
Construct(r) ==
    /\ station[r] = NoModel
    /\ \E s \in Strategies, seed \in Seeds :
          /\ station' = [station EXCEPT ![r] = ChargingStationModel(1, s, seed, PairConfig)]
          /\ np_random' = [seed |-> seed, pos |-> 0]
    /\ UNCHANGED <<py_tape, np_tape>>
    /\ UNCHANGED app_vars

\* the value at position pos of a tape is v, if the tape has revealed it
Replays(tape, pos, v) == pos < Len(tape) => tape[pos + 1] = v

Reveal(tape, pos, v) == IF pos < Len(tape) THEN tape ELSE Append(tape, v)

\* m.step() of the loop, for the model of run r: random.random() and the
\* shuffle read model.random, the draws of an arrival read np.random
SeededStep(r) ==
    /\ station[r] # NoModel
    /\ Busy(station[r], PairBounds)
    /\ \E d \in SpawnDraws(station[r], PairBounds) :
         \E order \in Orderings(Leaving(AfterQueueLogic(station[r], d))) :
            LET m == station[r]
                py == py_tape[m.random.seed]
                np == np_tape[np_random.seed]
            IN  /\ Replays([i \in Indices(py) |-> py[i].u], m.random.pos, d.u)
                /\ Replays([i \in Indices(py) |-> py[i].order], m.random.pos, order)
                /\ ReadsNumpy(m, d.u) => Replays(np, np_random.pos, d.np)
                /\ station' = [station EXCEPT ![r] = step(m, d, order)]
                /\ py_tape' = [py_tape EXCEPT ![m.random.seed] =
                                  Reveal(py, m.random.pos, [u |-> d.u, order |-> order])]
                /\ IF ReadsNumpy(m, d.u)
                   THEN /\ np_tape' = [np_tape EXCEPT ![np_random.seed] =
                                          Reveal(np, np_random.pos, d.np)]
                        /\ np_random' = [np_random EXCEPT !.pos = np_random.pos + 1]
                   ELSE UNCHANGED <<np_tape, np_random>>
    /\ UNCHANGED app_vars

NextPair == \E r \in RunIds : Construct(r) \/ SeededStep(r)

SpecPair == InitPair /\ [][NextPair]_vars

(***************************************************************************)
(* SpecSurge: smart pricing.  Stations constructed without smart pricing,  *)
(* with the switch alone, and with the switch, a sensitivity and a cap     *)
(* are stepped; and _update_smart_pricing is applied, under a surge        *)
(* config, to the active sets that the runs without smart pricing reach.   *)
(***************************************************************************)
SurgeBounds == [agents |-> MaxSurgeAgents, horizon |-> MaxSurgeSteps, steps |-> MaxSurgeSteps,
                socs |-> {SocLow}, noises |-> {90}]

\* user_config with enable_smart_pricing, surge_sensitivity (tenths) and
\* max_price_cap (cents per kWh), on a base price of 0.60
SurgeConfig(sensitivity, cap) ==
    ("surge_sensitivity" :> sensitivity @@ "max_price_cap" :> cap)
        @@ [FastConfig EXCEPT !.enable_smart_pricing = TRUE, !.price_per_kwh = 60]

SurgeConfigs == {SurgeConfig(s, c) : s \in {0, 5, 10}, c \in {90, 150}}

\* user_config with enable_smart_pricing alone
SwitchOnly == [FastConfig EXCEPT !.enable_smart_pricing = TRUE]

InitSurge == InitOne(1..MaxChargers, {FastConfig, SwitchOnly, SurgeConfig(5, 90)})

SurgeStep(r) == priced = NoModel /\ StepWithin(r, SurgeBounds)

\* self._update_smart_pricing() on the active set of station r, the config
\* being a surge config
Reprice(r) ==
    /\ station[r] # NoModel
    /\ priced = NoModel
    /\ ~station[r].config.enable_smart_pricing
    /\ \E c \in SurgeConfigs :
          priced' = update_smart_pricing([station[r] EXCEPT !.config = c])
    /\ UNCHANGED <<station, np_random, py_tape, np_tape, batch, session_state, uploaded>>

NextSurge == \E r \in RunIds : SurgeStep(r) \/ Reprice(r)

SpecSurge == InitSurge /\ [][NextSurge]_vars

(***************************************************************************)
(* SpecConstruct: the constructor called with any number of chargers from  *)
(* 0 and with any strategy string, the station then stepped.               *)
(***************************************************************************)
StrategyArguments == Strategies \cup {"LIFO"}

InitConstruct ==
    /\ \E n \in 0..MaxChargers, s \in StrategyArguments :
          station = [r \in RunIds |->
                        IF r = 1 THEN ChargingStationModel(n, s, 42, FastConfig) ELSE NoModel]
    /\ np_random = [seed |-> 42, pos |-> 0]
    /\ py_tape = [s \in Seeds |-> <<>>]
    /\ np_tape = [s \in Seeds |-> <<>>]
    /\ priced = NoModel
    /\ batch = NoBatch
    /\ session_state = [monte_carlo_df |-> None, agent_level_df |-> None]
    /\ uploaded = None

ConstructedStep(r) == StepWithin(r, SurgeBounds)

NextConstruct == \E r \in RunIds : ConstructedStep(r)

SpecConstruct == InitConstruct /\ [][NextConstruct]_vars

(***************************************************************************)
(* SpecImport: the Data Manager page (app.py, lines 329-340).  A file of   *)
(* the bundle is absent, unreadable as CSV, or a table; a table has all    *)
(* the columns the analytics read, or lacks one.                           *)
(***************************************************************************)
TableContents == {"a", "b"}
Tables == [kind : {"table"}, rows : TableContents, columns : {"complete", "incomplete"}]
Absent == [kind |-> "absent"]
Unreadable == [kind |-> "unreadable"]
Files == {Absent, Unreadable} \cup Tables
Bundles == [summary : Files, micro : Files]

InitImport ==
    /\ station = [r \in RunIds |-> NoModel]
    /\ np_random = [seed |-> 0, pos |-> 0]
    /\ py_tape = [s \in Seeds |-> <<>>]
    /\ np_tape = [s \in Seeds |-> <<>>]
    /\ priced = NoModel
    /\ batch = NoBatch
    /\ session_state = [monte_carlo_df |-> None, agent_level_df |-> None]
    /\ uploaded = None

\* f = st.file_uploader(...)
Upload ==
    /\ uploaded = None
    /\ \E f \in Bundles : uploaded' = f
    /\ UNCHANGED <<station, np_random, py_tape, np_tape, priced, batch, session_state>>

\* lines 333-340: zf.read of an absent file and pd.read_csv of an unreadable
\* one raise, and the except clause reports the error
import_bundle(state, f) ==
    IF f.summary.kind # "table" THEN state
    ELSE LET loaded == [state EXCEPT !.monte_carlo_df = f.summary]
         IN  IF f.micro = Absent THEN loaded
             ELSE IF f.micro = Unreadable THEN loaded
             ELSE [loaded EXCEPT !.agent_level_df = f.micro]

Import ==
    /\ uploaded # None
    /\ session_state' = import_bundle(session_state, uploaded)
    /\ uploaded' = None
    /\ UNCHANGED <<station, np_random, py_tape, np_tape, priced, batch>>

NextImport == Upload \/ Import

SpecImport == InitImport /\ [][NextImport]_vars

(***************************************************************************)
(* SpecBatch: the Monte Carlo page (app.py, lines 173-215).  The form      *)
(* gives the mix of the profiles; every run builds a station of four       *)
(* chargers and steps it; its row joins the local list results, which      *)
(* reaches the session when the loops have ended.  A row keeps the         *)
(* counters of the station, not the averages taken over its logs.          *)
(***************************************************************************)
BatchChargers == 4
BatchStrategies == <<"FIFO", "SIRQ">>

\* the sliders of lines 170: each share between 0.0 and 1.0
MixChoices ==
    { [prob_critical |-> 0, prob_standard |-> 0, prob_economy |-> 0],
      [prob_critical |-> 0, prob_standard |-> 0, prob_economy |-> 100] }

LoadChoices == { <<10>> }

BatchBounds == [agents |-> MaxBatchSteps, horizon |-> MaxBatchSteps, steps |-> MaxBatchSteps,
                socs |-> {SocLow}, noises |-> {90}]

\* the runs in the order of the three loops of lines 179-181
RunsOf(loads, n_runs) ==
    [k \in 1..(Len(loads) * 2 * n_runs) |->
        [ l |-> loads[((k - 1) \div (2 * n_runs)) + 1],
          s |-> BatchStrategies[(((k - 1) \div n_runs) % 2) + 1],
          i |-> (k - 1) % n_runs ]]

\* lines 183 and model.py 18-21: the defaults, overridden by the form
BatchConfig(base, l) ==
    [DEFAULT_CONFIG EXCEPT !.prob_critical = base.prob_critical,
                           !.prob_standard = base.prob_standard,
                           !.prob_economy = base.prob_economy,
                           !.traffic_multiplier = l]

DataFrame(rows) == [kind |-> "table", rows |-> rows, columns |-> "complete"]

InitBatch ==
    /\ station = [r \in RunIds |-> NoModel]
    /\ np_random = [seed |-> 0, pos |-> 0]
    /\ py_tape = [s \in Seeds |-> <<>>]
    /\ np_tape = [s \in Seeds |-> <<>>]
    /\ priced = NoModel
    /\ batch = NoBatch
    /\ session_state = [monte_carlo_df |-> None, agent_level_df |-> None]
    /\ uploaded = None

Running == batch # NoBatch /\ batch.status = "running"

\* lines 173-177: the form is submitted
RunBatch ==
    /\ batch = NoBatch
    /\ \E base \in MixChoices, loads \in LoadChoices :
          batch' = [ status     |-> "running",
                     base       |-> base,
                     todo       |-> RunsOf(loads, MaxBatchRuns),
                     results    |-> <<>>,
                     micro_dump |-> <<>> ]
    /\ UNCHANGED <<station, np_random, py_tape, np_tape, priced, session_state, uploaded>>

\* lines 182-184: a seed is drawn and the station of the run is built
BatchConstruct ==
    /\ Running
    /\ batch.todo # <<>>
    /\ station[1] = NoModel
    /\ \E seed \in Seeds :
          LET run == Head(batch.todo)
          IN  /\ station' = [station EXCEPT ![1] =
                                ChargingStationModel(BatchChargers, run.s, seed,
                                                     BatchConfig(batch.base, run.l))]
              /\ np_random' = [seed |-> seed, pos |-> 0]
    /\ UNCHANGED <<py_tape, np_tape>>
    /\ UNCHANGED app_vars

\* line 185: m.step()
BatchStep == Running /\ StepWithin(1, BatchBounds)

\* lines 187-211, after the last step of the run
results_row(run, m) ==
    [ Run_ID            |-> run.i,
      Traffic_Load      |-> run.l,
      Strategy          |-> run.s,
      Revenue           |-> m.kpi_revenue,
      Critical_Failures |-> m.kpi_failed_critical,
      Balked_Agents     |-> m.kpi_balked_agents,
      Preemptions       |-> m.kpi_preemptions ]

BatchRunEnds ==
    /\ Running
    /\ station[1] # NoModel
    /\ station[1].raised = ""
    /\ station[1].steps = MaxBatchSteps
    /\ LET run == Head(batch.todo)
           m == station[1]
       IN  batch' = [batch EXCEPT
                        !.results = Append(@, results_row(run, m)),
                        !.micro_dump = IF run.i = 0
                                       THEN Append(@, [Run_ID |-> run.i,
                                                       Traffic_Load |-> run.l,
                                                       log |-> m.agent_log])
                                       ELSE @,
                        !.todo = Tail(@)]
    /\ station' = [station EXCEPT ![1] = NoModel]
    /\ UNCHANGED <<np_random, py_tape, np_tape, priced, session_state, uploaded>>

\* a step left by an exception: nothing in lines 173-215 catches it, the
\* run of the script ends there and its locals are gone
BatchRunRaises ==
    /\ Running
    /\ station[1] # NoModel
    /\ station[1].raised # ""
    /\ batch' = [batch EXCEPT !.status = "aborted", !.todo = <<>>,
                              !.results = <<>>, !.micro_dump = <<>>]
    /\ station' = [station EXCEPT ![1] = NoModel]
    /\ UNCHANGED <<np_random, py_tape, np_tape, priced, session_state, uploaded>>

\* lines 213-215, after the loops
BatchEnds ==
    /\ Running
    /\ batch.todo = <<>>
    /\ session_state' = [ monte_carlo_df |-> DataFrame(batch.results),
                          agent_level_df |-> IF batch.micro_dump # <<>>
                                             THEN DataFrame(batch.micro_dump)
                                             ELSE None ]
    /\ batch' = [batch EXCEPT !.status = "complete"]
    /\ UNCHANGED <<station, np_random, py_tape, np_tape, priced, uploaded>>

NextBatch ==
    RunBatch \/ BatchConstruct \/ BatchStep \/ BatchRunEnds \/ BatchRunRaises \/ BatchEnds

SpecBatch == InitBatch /\ [][NextBatch]_vars

(***************************************************************************)
(* SpecCandidates: a station of two fast chargers and four trucks, enough  *)
(* for a spot to come free while two trucks queue beside a busy charger.   *)
(***************************************************************************)
CandidateBounds == [agents |-> MaxCandidateAgents, horizon |-> MaxCandidateSteps,
                    steps |-> MaxCandidateSteps, socs |-> {SocLow}, noises |-> {90}]

InitCandidates == InitOne({2}, {FastConfig})

CandidateStep(r) == StepWithin(r, CandidateBounds)

NextCandidates == \E r \in RunIds : CandidateStep(r)

SpecCandidates == InitCandidates /\ [][NextCandidates]_vars

(***************************************************************************)
(* SpecLive: one station of one charger whose loop runs on (app.py, line   *)
(* 185: for _ in range(1440)).  The arrivals stop after the horizon and    *)
(* the station is followed until it has emptied.  The loop does not stop   *)
(* between two iterations: LoopContinues is the loop moving to its next    *)
(* iteration, enabled exactly when a step is (station[r] is constructed    *)
(* and Busy), and the fairness on it leaves no behaviour that halts while  *)
(* a step can be taken.  A step always adds a tick row, so no step is a    *)
(* LoopContinues step: the condition only rules the halting out.           *)
(***************************************************************************)
LiveBounds == [agents |-> MaxLiveAgents, horizon |-> LiveArrivalHorizon,
               steps |-> MaxLiveSteps, socs |-> {SocLow}, noises |-> {90}]

InitLive == InitOne({1}, {FastConfig})

LiveStep(r) == StepWithin(r, LiveBounds)

NextLive == \E r \in RunIds : LiveStep(r)

LoopContinues ==
    \E r \in RunIds :
        /\ station[r] # NoModel
        /\ Busy(station[r], LiveBounds)
        /\ station' = [station EXCEPT ![r].steps = @ + 1]
        /\ UNCHANGED <<np_random, py_tape, np_tape>>
        /\ UNCHANGED app_vars

SpecLive == InitLive /\ [][NextLive]_vars /\ WF_vars(LoopContinues)

(***************************************************************************)
(* SpecShield: a station of two chargers whose user_config sets a service  *)
(* fee of 50.00 and a premium of 1.1, so that a STANDARD truck can bid     *)
(* above a CRITICAL one and a third truck can out-bid both.                *)
(***************************************************************************)
ShieldConfig == [DEFAULT_CONFIG EXCEPT !.base_service_fee = 5000, !.preemption_premium = 11]

ShieldBounds == [agents |-> MaxShieldAgents, horizon |-> MaxShieldSteps,
                 steps |-> MaxShieldSteps, socs |-> {SocLow}, noises |-> NoiseChoices]

InitShield == InitOne({2}, {ShieldConfig})

ShieldStep(r) == StepWithin(r, ShieldBounds)

NextShield == \E r \in RunIds : ShieldStep(r)

SpecShield == InitShield /\ [][NextShield]_vars

(***************************************************************************)
(* Vocabulary of the properties.                                           *)
(***************************************************************************)
Constructed == {r \in RunIds : station[r] # NoModel}

Rows(log, outcome) == {i \in Indices(log) : log[i].Outcome = outcome}

\* the rows queue logic appends to the departure table
NewRows(before, after) == SubSeq(after.agent_log, Len(before.agent_log) + 1, Len(after.agent_log))

\* the station as the queue logic finds it in a step with the draws d
BeforeQueueLogic(m, d) == spawn_traffic(update_smart_pricing(m), d)

StepDraws(m) ==
    SpawnDraws(m, Bounds) \cup SpawnDraws(m, DayBounds) \cup SpawnDraws(m, PairBounds)
        \cup SpawnDraws(m, SurgeBounds) \cup SpawnDraws(m, CandidateBounds)

\* the step from station to station' is a step of run r with the draws d
TookStep(r, d) ==
    /\ station[r] # NoModel
    /\ station'[r] # NoModel
    /\ station'[r].steps = station[r].steps + 1
    /\ station'[r].current_id = spawn_traffic(station[r], d).current_id
    /\ \E order \in Orderings(Leaving(AfterQueueLogic(station[r], d))) :
          station'[r] = step(station[r], d, order)

\* P(m, n) holds of the station m before and n after the queue logic of
\* every step taken
QueueLogicAlways(P(_, _)) ==
    \A r \in RunIds :
        station[r] # NoModel =>
            \A d \in StepDraws(station[r]) :
                TookStep(r, d) =>
                    P(BeforeQueueLogic(station[r], d), AfterQueueLogic(station[r], d))

\* P(m, n) holds of the station m before and n after the queue logic of
\* every step the station can take next
QueueLogicNext(P(_, _)) ==
    \A r \in Constructed :
        \A d \in StepDraws(station[r]) :
            P(BeforeQueueLogic(station[r], d), AfterQueueLogic(station[r], d))

\* trucks the while loop of a policy moves into free spots
FreeSpotAdmissions(m) == IF m.charging_spots > 0 THEN Min(m.charging_spots, Len(Queuing(m))) ELSE 0

\* an agent that has charged for exactly one tick
ChargedOnce(a, config) ==
    \E s \in SocLow..(SocHigh - 1) : a.soc = charge([a EXCEPT !.soc = s * SocUnit], config).soc

OutBids(q, c, config) == q.bid * 10 > c.bid * config.preemption_premium

(***************************************************************************)
(* C1.  Slot conservation: after every step, under either policy, the free *)
(* spots plus the agents of the schedule with status Charging equal the    *)
(* number of chargers.                                                     *)
(***************************************************************************)
SlotConservation ==
    \A r \in Constructed :
        station[r].charging_spots + Len(Charging(station[r])) = station[r].num_chargers

(***************************************************************************)
(* C2.  Preemption effect: when the SIRQ queue logic preempts, the victim  *)
(* is no longer Charging and no longer in the schedule, the preemption     *)
(* counter has grown by exactly one, the challenger is Charging, and the   *)
(* number of Charging agents is what the free-spot admissions made it.     *)
(***************************************************************************)
PreemptionSwaps(m, n) ==
    LET new == NewRows(m, n)
    IN  (m.strategy = "SIRQ" /\ new # <<>>) =>
            /\ Len(new) = 1
            /\ new[1].Outcome = "Preempted"
            /\ new[1].ID \notin Ids(n.agents)
            /\ n.kpi_preemptions = m.kpi_preemptions + 1
            /\ \E i \in Indices(m.agents) :
                  /\ m.agents[i].status = "Queuing"
                  /\ n.agents[i].status = "Charging"
            /\ Len(Charging(n)) = Len(Charging(m)) + FreeSpotAdmissions(m)

PreemptionEffect == [][QueueLogicAlways(PreemptionSwaps)]_vars

(***************************************************************************)
(* C3.  Protected profile: no row of the departure table has profile       *)
(* CRITICAL and outcome Preempted.                                         *)
(***************************************************************************)
CriticalNeverPreempted ==
    \A r \in Constructed :
        \A i \in Indices(station[r].agent_log) :
            ~(station[r].agent_log[i].Profile = "CRITICAL"
              /\ station[r].agent_log[i].Outcome = "Preempted")

\* a SIRQ station after a step whose preemption test met a CRITICAL victim
\* out-bid by the head of the queue: the victim had been charging before
\* the step, the challenger had been queuing in it
CriticalVictimOutBid ==
    \E r \in Constructed :
        LET m == station[r]
        IN  /\ m.strategy = "SIRQ"
            /\ \E c \in Range(Charging(m)), q \in Range(Queuing(m)) :
                  /\ c.profile_type = "CRITICAL"
                  /\ ~ChargedOnce(c, m.config)
                  /\ \A x \in Range(Charging(m)) : x.bid >= c.bid
                  /\ q.wait_time >= 1
                  /\ \A x \in Range(Queuing(m)) : x.bid <= q.bid
                  /\ OutBids(q, c, m.config)

(***************************************************************************)
(* C6.  Under FIFO the preemption counter is 0 and no row of the departure *)
(* table has outcome Preempted.                                            *)
(***************************************************************************)
FifoNeverPreempts ==
    \A r \in Constructed :
        station[r].strategy = "FIFO" =>
            /\ station[r].kpi_preemptions = 0
            /\ Rows(station[r].agent_log, "Preempted") = {}

\* a FIFO station after a step in which a queuing truck out-bid, by more
\* than the premium, a truck that is not CRITICAL and was charging
FifoOutBidCharger ==
    \E r \in Constructed :
        LET m == station[r]
        IN  /\ m.strategy = "FIFO"
            /\ \E c \in Range(Charging(m)), q \in Range(Queuing(m)) :
                  /\ c.profile_type # "CRITICAL"
                  /\ ~ChargedOnce(c, m.config)
                  /\ q.wait_time >= 1
                  /\ OutBids(q, c, m.config)

(***************************************************************************)
(* C4.  The preemption threshold is strict: in whatever step a station    *)
(* takes next, the SIRQ queue logic appends a Preempted row only when the  *)
(* bid of the head of the queue (the highest bid left queuing by the       *)
(* free-spot admissions) is strictly greater than the victim's bid times   *)
(* preemption_premium; when the head's bid is at most the lowest charging  *)
(* bid times the premium, nothing is appended and the head stays Queuing.  *)
(***************************************************************************)
\* the bids left queuing by the free-spot admissions, highest first
BidsLeftQueuing(m) ==
    LET q == ByBidReverse(Queuing(m))
    IN  [i \in 1..(Len(q) - FreeSpotAdmissions(m)) |-> q[i + FreeSpotAdmissions(m)].bid]

ThresholdIsStrict(m, n) ==
    LET new == NewRows(m, n)
        left == BidsLeftQueuing(m)
        premium == m.config.preemption_premium
    IN  m.strategy = "SIRQ" =>
            /\ \A i \in Indices(new) :
                  new[i].Outcome = "Preempted" =>
                      left # <<>> /\ left[1] * 10 > new[i].Bid * premium
            /\ (/\ left # <<>>
                /\ Charging(m) # <<>>
                /\ \A c \in Range(Charging(m)) : left[1] * 10 <= c.bid * premium)
               => /\ new = <<>>
                  /\ Len(Queuing(n)) = Len(left)

PromotesInIdOrder(m, n) ==
    m.strategy = "FIFO" =>
        \A i, j \in Indices(m.agents) :
            (/\ m.agents[i].status = "Queuing"
             /\ m.agents[j].status = "Queuing"
             /\ m.agents[i].unique_id < m.agents[j].unique_id
             /\ n.agents[j].status = "Charging")
            => n.agents[i].status = "Charging"

FifoOrder == QueueLogicNext(PromotesInIdOrder)

\* a FIFO station after a step that promoted a truck out of a queue of two:
\* the truck promoted in this step has the smaller id and the lower bid,
\* the other had been queuing since an earlier step and still is
FifoPromotedLowerBid ==
    \E r \in Constructed :
        LET m == station[r]
        IN  /\ m.strategy = "FIFO"
            /\ \E a \in Range(Charging(m)), q \in Range(Queuing(m)) :
                  /\ a.unique_id < q.unique_id
                  /\ a.bid < q.bid
                  /\ a.wait_time >= 1
                  /\ ChargedOnce(a, m.config)
                  /\ q.wait_time >= 2

(***************************************************************************)
(* C7.  Preemption rate limit: a step under SIRQ raises the preemption     *)
(* counter by at most one and appends at most one Preempted row.           *)
(***************************************************************************)
AtMostOnePreemption ==
    \A r \in RunIds :
        (station[r] # NoModel /\ station[r].strategy = "SIRQ") =>
            /\ station'[r].kpi_preemptions <= station[r].kpi_preemptions + 1
            /\ Cardinality(Rows(station'[r].agent_log, "Preempted"))
                 <= Cardinality(Rows(station[r].agent_log, "Preempted")) + 1

PreemptionRateLimit == [][AtMostOnePreemption]_vars

\* a SIRQ station after a step that preempted with two trucks in the queue:
\* the only rows after the Preempted one are the victim's, the challenger
\* has charged one tick, the other truck has waited through that step and
\* the one before
PreemptedWithTwoQueuing ==
    \E r \in Constructed :
        LET m == station[r]
            log == m.agent_log
        IN  /\ m.strategy = "SIRQ"
            /\ m.kpi_preemptions = 1
            /\ \E i \in Rows(log, "Preempted") :
                  /\ \A j \in Indices(log) : j > i => log[j].ID = log[i].ID
                  /\ \E a \in Range(Charging(m)), q \in Range(Queuing(m)) :
                        /\ ChargedOnce(a, m.config)
                        /\ a.bid * 10 > log[i].Bid * m.config.preemption_premium
                        /\ q.wait_time >= 2

(***************************************************************************)
(* C8.  Patience bound: every row with outcome Left (Impatient) has a wait *)
(* time strictly greater than the patience of its profile and at most the  *)
(* patience plus one.                                                      *)
(***************************************************************************)
PatienceBound ==
    \A r \in Constructed :
        \A i \in Rows(station[r].agent_log, "Left (Impatient)") :
            LET row == station[r].agent_log[i]
            IN  /\ row.Wait_Time > TRUCK_PROFILES[row.Profile].patience
                /\ row.Wait_Time <= TRUCK_PROFILES[row.Profile].patience + 1

\* a departure table with impatient departures of two profiles, each past
\* its own patience
TwoProfilesLeftImpatient ==
    \E r \in Constructed :
        LET log == station[r].agent_log
        IN  \E i, j \in Rows(log, "Left (Impatient)") :
                /\ log[i].Profile # log[j].Profile
                /\ log[i].Wait_Time > TRUCK_PROFILES[log[i].Profile].patience
                /\ log[j].Wait_Time > TRUCK_PROFILES[log[j].Profile].patience

(***************************************************************************)
(* C9.  Departure is final: no agent of the schedule has a row in the      *)
(* departure table, and no id has two rows.                                *)
(***************************************************************************)
DepartureIsFinal ==
    \A r \in Constructed :
        LET log == station[r].agent_log
        IN  /\ \A i \in Indices(log) : log[i].ID \notin Ids(station[r].agents)
            /\ \A i, j \in Indices(log) : log[i].ID = log[j].ID => i = j

(***************************************************************************)
(* C10.  Determinism: two stations constructed with the same chargers,     *)
(* strategy, seed and config and stepped the same number of ticks have     *)
(* equal departure tables and equal tick tables.                           *)
(***************************************************************************)
SameConstruction(m, n) ==
    /\ m.num_chargers = n.num_chargers
    /\ m.strategy = n.strategy
    /\ m.random.seed = n.random.seed
    /\ m.config = n.config

Determinism ==
    \A r1, r2 \in Constructed :
        (SameConstruction(station[r1], station[r2]) /\ station[r1].steps = station[r2].steps)
        => /\ station[r1].agent_log = station[r2].agent_log
           /\ station[r1].system_log = station[r2].system_log

(***************************************************************************)
(* C11.  Run isolation: the trucks of a run are the ones it gets when it   *)
(* is stepped alone.  Alone, the k-th arrival of a station seeded s is     *)
(* made of the k-th draws of the numpy generator under s; so every truck   *)
(* of the schedule and every row of the departure table with id k agrees   *)
(* with position k of the tape of the station's seed, where revealed.      *)
(***************************************************************************)
DrawsOfOwnStream(m, id, profile, vot) ==
    LET tape == np_tape[m.random.seed]
    IN  id <= Len(tape) => (profile = tape[id].profile /\ vot = tape[id].vot)

RunIsolation ==
    \A r \in Constructed :
        LET m == station[r]
        IN  /\ \A i \in Indices(m.agents) :
                  DrawsOfOwnStream(m, m.agents[i].unique_id,
                                   m.agents[i].profile_type, m.agents[i].value_of_time)
            /\ \A i \in Indices(m.agent_log) :
                  DrawsOfOwnStream(m, m.agent_log[i].ID,
                                   m.agent_log[i].Profile, m.agent_log[i].Value_of_Time)

(***************************************************************************)
(* C12.  Revenue monotonicity: in the tick table of a run, the cumulative  *)
(* revenue of a row is at least that of the row before, under both         *)
(* policies.                                                               *)
(***************************************************************************)
RevenueMonotone ==
    \A r \in Constructed :
        LET log == station[r].system_log
        IN  \A i \in Indices(log) :
                i > 1 => log[i].Total_Revenue >= log[i - 1].Total_Revenue

\* a SIRQ tick table in which the revenue grew by a full charge, then by a
\* tapered one, then not at all, after a preemption
RevenueGrewThenStalled ==
    \E r \in Constructed :
        LET log == station[r].system_log
        IN  /\ station[r].strategy = "SIRQ"
            /\ station[r].kpi_preemptions > 0
            /\ \E i, j, k \in Indices(log) :
                  /\ 1 < i /\ i < j /\ j < k
                  /\ log[i].Total_Revenue - log[i - 1].Total_Revenue
                       > log[j].Total_Revenue - log[j - 1].Total_Revenue
                  /\ log[j].Total_Revenue > log[j - 1].Total_Revenue
                  /\ log[k].Total_Revenue = log[k - 1].Total_Revenue

(***************************************************************************)
(* C13.  Static pricing: a station without smart pricing has the base      *)
(* price as its clearing price after every step, and in every row of its   *)
(* tick table, whatever the occupancy and the queue.                       *)
(***************************************************************************)
StaticPricing ==
    \A r \in Constructed :
        LET m == station[r]
        IN  (~m.config.enable_smart_pricing /\ m.steps > 0) =>
                /\ m.current_price = m.config.price_per_kwh
                /\ \A i \in Indices(m.system_log) :
                      m.system_log[i].Current_Price = m.config.price_per_kwh

\* a station without smart pricing, every charger taken and a truck in the
\* queue, after at least two rows of which the last counts a queue
StaticPriceUnderLoad ==
    \E r \in Constructed :
        LET m == station[r]
        IN  /\ ~m.config.enable_smart_pricing
            /\ Len(Charging(m)) >= m.num_chargers
            /\ Len(Queuing(m)) >= 1
            /\ Len(m.system_log) >= 2
            /\ m.system_log[Len(m.system_log)].Queue_Length >= 1

(***************************************************************************)
(* C14.  Surge pricing: with smart pricing enabled, the clearing price the *)
(* pricing step sets is min(base * (1 + sensitivity * load / capacity),    *)
(* cap), load being the trucks charging and queuing before the tick's      *)
(* arrival; it never exceeds the cap and never falls below the base price. *)
(***************************************************************************)
\* price is the surge price of the active set of m (sensitivity in tenths)
IsSurgePrice(m, price) ==
    LET load == Cardinality({i \in Indices(m.agents) :
                                m.agents[i].status \in {"Charging", "Queuing"}})
        capacity == m.num_chargers
        base == m.config.price_per_kwh
        cap == m.config.max_price_cap
        uncapped10c == base * (10 * capacity + m.config.surge_sensitivity * load)
    IN  /\ price <= cap
        /\ price >= base
        /\ \/ price * 10 * capacity = uncapped10c
           \/ price = cap /\ uncapped10c >= cap * 10 * capacity

SurgeIsSet ==
    /\ priced' # NoModel => IsSurgePrice(priced', priced'.current_price)
    /\ \A r \in RunIds :
          (/\ station[r] # NoModel
           /\ station'[r] # station[r]
           /\ station[r].config.enable_smart_pricing
           /\ "surge_sensitivity" \in DOMAIN station[r].config)
          => IsSurgePrice(station[r], station'[r].current_price)

SurgePricing == [][SurgeIsSet]_vars

\* the pricing step has set a price above the base and below the cap for a
\* station with its chargers taken and a queue
SurgedBelowCap ==
    /\ priced # NoModel
    /\ Len(Charging(priced)) >= priced.num_chargers
    /\ Len(Queuing(priced)) >= 1
    /\ priced.current_price > priced.config.price_per_kwh
    /\ priced.current_price < priced.config.max_price_cap

(***************************************************************************)
(* C15.  Balking: a step with an arrival at a station with smart pricing   *)
(* either counts one more balked truck, consumes no id and adds no agent,  *)
(* or leaves the balked counter and gives the truck the next id; at a      *)
(* station without smart pricing an arrival leaves the balked counter.     *)
(***************************************************************************)
ArrivalBalksOrEnters ==
    \A r \in RunIds :
        (/\ station[r] # NoModel
         /\ station'[r] # station[r]
         /\ np_random'.pos = np_random.pos + 1)
        => LET m == station[r]
               n == station'[r]
           IN  /\ n.raised = ""
               /\ IF m.config.enable_smart_pricing
                  THEN \/ /\ n.kpi_balked_agents = m.kpi_balked_agents + 1
                          /\ n.current_id = m.current_id
                          /\ Ids(n.agents) \subseteq Ids(m.agents)
                       \/ /\ n.kpi_balked_agents = m.kpi_balked_agents
                          /\ n.current_id = m.current_id + 1
                  ELSE /\ n.kpi_balked_agents = m.kpi_balked_agents
                       /\ n.current_id = m.current_id + 1

Balking == [][ArrivalBalksOrEnters]_vars

(***************************************************************************)
(* C16.  Construction validation: no station that has been stepped has     *)
(* fewer than one charger or a strategy other than FIFO and SIRQ.          *)
(***************************************************************************)
ConstructionValidated ==
    \A r \in Constructed :
        station[r].steps > 0 =>
            /\ station[r].num_chargers >= 1
            /\ station[r].strategy \in {"FIFO", "SIRQ"}

(***************************************************************************)
(* C17.  Import atomicity: the import of a bundle that lacks a table, has  *)
(* an unreadable table or a table without a required column leaves the    *)
(* tables of the session as they were.                                     *)
(***************************************************************************)
Defective(f) ==
    \E file \in {f.summary, f.micro} : file.kind # "table" \/ file.columns # "complete"

DefectiveImportRejected ==
    (uploaded # None /\ uploaded' = None /\ Defective(uploaded))
    => session_state' = session_state

ImportAtomicity == [][DefectiveImportRejected]_vars

(***************************************************************************)
(* C18.  Batch fault isolation: when a step of a run of a batch raises     *)
(* after other runs have completed, the batch goes on with the rows of     *)
(* the completed runs, or these rows are in the tables of the session.     *)
(***************************************************************************)
FaultAfterCompletedRuns ==
    /\ Running
    /\ batch.results # <<>>
    /\ station[1] # NoModel
    /\ station[1].raised # ""
    /\ station'[1] = NoModel

FaultIsIsolated ==
    FaultAfterCompletedRuns =>
        \/ batch'.status = "running" /\ batch'.results = batch.results
        \/ session_state'.monte_carlo_df = DataFrame(batch.results)

BatchFaultIsolation == [][FaultIsIsolated]_vars

(***************************************************************************)
(* C19.  SIRQ ordinary admission order: under SIRQ no truck the queue      *)
(* logic leaves Queuing has a strictly higher bid, or an equal bid and a   *)
(* smaller id, than a truck the same queue logic has promoted.             *)
(***************************************************************************)
PromotesInBidOrder(m, n) ==
    m.strategy = "SIRQ" =>
        \A i, j \in Indices(m.agents) :
            (/\ m.agents[i].status = "Queuing"
             /\ m.agents[j].status = "Queuing"
             /\ n.agents[j].status = "Charging"
             /\ \/ m.agents[i].bid > m.agents[j].bid
                \/ /\ m.agents[i].bid = m.agents[j].bid
                   /\ m.agents[i].unique_id < m.agents[j].unique_id)
            => n.agents[i].status = "Charging"

SirqAdmissionOrder == QueueLogicNext(PromotesInBidOrder)

\* two trucks of equal bid have queued and the one of smaller id charges
SirqTieAdmitted ==
    \E r \in Constructed :
        LET m == station[r]
        IN  /\ m.strategy = "SIRQ"
            /\ \E a \in Range(Charging(m)), q \in Range(Queuing(m)) :
                  /\ a.unique_id < q.unique_id
                  /\ a.bid = q.bid
                  /\ a.wait_time >= 1
                  /\ ChargedOnce(a, m.config)
                  /\ q.wait_time >= 2

(***************************************************************************)
(* C20.  Preemption candidates: whenever the preemption check of SIRQ      *)
(* runs, the challenger has the highest bid of the trucks then Queuing     *)
(* and the victim has the lowest bid of the trucks then Charging, those    *)
(* promoted by the same queue logic included.                              *)
(***************************************************************************)
CandidatesAreExtremes(m) ==
    m.strategy = "SIRQ" =>
        LET queue == ByBidReverse(Queuing(m))
            trucks == Admitted(m, queue)
            rest == SubSeq(queue, Len(trucks) + 1, Len(queue))
            m1 == [m EXCEPT !.agents = SetCharging(m.agents, Ids(trucks))]
            p == Preemption(m1, rest, Charging(m))
        IN  (rest # <<>> /\ Charging(m) # <<>>) =>
                /\ \A q \in Range(Queuing(m1)) : q.bid <= p.highest_bidder.bid
                /\ \A c \in Range(Charging(m1)) : p.victim.bid <= c.bid

PreemptionCandidates ==
    \A r \in Constructed :
        \A d \in SpawnDraws(station[r], CandidateBounds) :
            CandidatesAreExtremes(BeforeQueueLogic(station[r], d))

(***************************************************************************)
(* C21.  Revenue uses the tick's clearing price: the revenue the advance   *)
(* of the agents adds is the energy the Charging agents receive times the  *)
(* clearing price the pricing step has set, surged or not.                 *)
(***************************************************************************)
EnergyCharged(m) ==
    SumSeq([i \in Indices(m.agents) |->
               IF m.agents[i].status = "Charging" THEN real_kwh(m.agents[i], m.config) ELSE 0])

AccruesAtClearingPrice(m) ==
    \A order \in Orderings(Leaving(m)) :
        schedule_step(m, order).kpi_revenue = m.kpi_revenue + EnergyCharged(m) * m.current_price

EnergyCounted ==
    \A r \in Constructed :
        \A d \in StepDraws(station[r]) :
            TookStep(r, d) =>
                station'[r].kpi_energy_sold =
                    station[r].kpi_energy_sold + EnergyCharged(AfterQueueLogic(station[r], d))

EnergyAccounting == [][EnergyCounted]_vars

(***************************************************************************)
(* C23.  Completion: a Charging agent whose charge of the tick takes its   *)
(* state of charge to 85 or more leaves the active set in that tick with   *)
(* a Completed row and one more free spot; every Completed row is of such  *)
(* an agent, and no agent the tick leaves active has reached 85.           *)
(***************************************************************************)
ReachesTarget(a, config) ==
    a.status = "Charging" /\ charge(a, config).soc >= target_soc * SocUnit

CompletesAtTarget(m, n) ==
    \A order \in Orderings(Leaving(n)) :
        LET e == schedule_step(n, order)
            rows == NewRows(n, e)
            reached == {i \in Indices(n.agents) : ReachesTarget(n.agents[i], n.config)}
        IN  /\ \A i \in reached :
                  /\ n.agents[i].unique_id \notin Ids(e.agents)
                  /\ Cardinality({k \in Indices(rows) :
                                     /\ rows[k].ID = n.agents[i].unique_id
                                     /\ rows[k].Outcome = "Completed"}) = 1
            /\ \A k \in Indices(rows) :
                  rows[k].Outcome = "Completed"
                      => \E i \in reached : n.agents[i].unique_id = rows[k].ID
            /\ e.charging_spots = n.charging_spots + Cardinality(reached)
            /\ \A i \in Indices(e.agents) : e.agents[i].soc < target_soc * SocUnit

Completion == QueueLogicNext(CompletesAtTarget)

\* a truck has completed after a tapered tick, while another one charges
CompletedAfterTaper ==
    \E r \in Constructed :
        LET m == station[r]
        IN  /\ Rows(m.agent_log, "Completed") # {}
            /\ m.charging_spots >= 1
            /\ Charging(m) # <<>>

(***************************************************************************)
(* C24.  Tick pipeline: after n steps the tick table has n rows, row i     *)
(* carrying the tick index i; the last row carries the clearing price of   *)
(* its tick and the number of agents Queuing at the end of it; and n steps *)
(* have created at most n agents.                                          *)
(***************************************************************************)
TickPipeline ==
    \A r \in Constructed :
        LET m == station[r]
            log == m.system_log
        IN  /\ Len(log) = m.steps
            /\ \A i \in Indices(log) : log[i].Step = i
            /\ m.current_id <= m.steps
            /\ log # <<>> =>
                  /\ log[Len(log)].Queue_Length = Len(Queuing(m))
                  /\ log[Len(log)].Current_Price = m.current_price

\* a tick table of three rows and more, whose queue has grown and shrunk
QueueGrewAndShrank ==
    \E r \in Constructed :
        LET log == station[r].system_log
        IN  \E i, j \in Indices(log) :
                /\ i < j
                /\ j < Len(log)
                /\ log[i].Queue_Length < log[j].Queue_Length
                /\ log[Len(log)].Queue_Length < log[j].Queue_Length

(***************************************************************************)
(* C25.  Agent ids: the agents of the active set carry distinct ids that   *)
(* increase in creation order, no id of the active set or of a departure   *)
(* row exceeds the id counter, and an agent an arrival creates receives an *)
(* id above every id of the active set and of the departure rows.          *)
(***************************************************************************)
IdsOf(m) == Ids(m.agents) \cup {m.agent_log[k].ID : k \in Indices(m.agent_log)}

AgentIds ==
    \A r \in Constructed :
        LET m == station[r]
        IN  /\ \A i, j \in Indices(m.agents) :
                  i < j => m.agents[i].unique_id < m.agents[j].unique_id
            /\ \A id \in IdsOf(m) : 1 <= id /\ id <= m.current_id
            /\ \A d \in SpawnDraws(m, CandidateBounds) :
                  LET a == spawn_traffic(update_smart_pricing(m), d)
                  IN  Len(a.agents) > Len(m.agents) =>
                          /\ Len(a.agents) = Len(m.agents) + 1
                          /\ a.agents[Len(a.agents)].unique_id = a.current_id
                          /\ \A id \in IdsOf(m) : id < a.agents[Len(a.agents)].unique_id

\* an agent has been created after an earlier one has departed
CreatedAfterDeparture ==
    \E r \in Constructed :
        LET m == station[r]
        IN  \E k \in Indices(m.agent_log), i \in Indices(m.agents) :
                /\ m.agent_log[k].Outcome = "Completed"
                /\ m.agents[i].unique_id > m.agent_log[k].ID
                /\ m.agents[i].wait_time = 0
                /\ m.agents[i].status = "Charging"
                /\ ChargedOnce(m.agents[i], m.config)

(***************************************************************************)
(* C26.  Bid evolution: the queue logic changes no bid; in the advance of  *)
(* a tick the bid of a Queuing CRITICAL agent grows by a quarter of its    *)
(* value of time when its wait reaches a multiple of 30, and no other bid  *)
(* changes.                                                                *)
(***************************************************************************)
BidsEvolve(m, n) ==
    /\ \A i \in Indices(m.agents) : n.agents[i].bid = m.agents[i].bid
    /\ \A order \in Orderings(Leaving(n)) :
          LET e == schedule_step(n, order)
          IN  \A i \in Indices(n.agents), j \in Indices(e.agents) :
                  e.agents[j].unique_id = n.agents[i].unique_id =>
                      LET a == n.agents[i]
                          b == e.agents[j]
                      IN  IF /\ a.status = "Queuing"
                             /\ a.profile_type = "CRITICAL"
                             /\ (a.wait_time + 1) % PanicPeriod = 0
                          THEN b.bid * 4 = a.bid * 4 + a.value_of_time * 100
                          ELSE b.bid = a.bid

BidEvolution == QueueLogicNext(BidsEvolve)

\* a CRITICAL truck has just waited its thirtieth tick, beside a truck of
\* another profile that has waited as long
PanickedBesideCalm ==
    \E r \in Constructed :
        \E a, q \in Range(Queuing(station[r])) :
            /\ a.profile_type = "CRITICAL"
            /\ a.wait_time = PanicPeriod
            /\ q.profile_type # "CRITICAL"
            /\ q.wait_time >= PanicPeriod

(***************************************************************************)
(* C27.  Critical-failure accounting: in every state the critical-failure  *)
(* counter is the number of departure rows of profile CRITICAL whose       *)
(* outcome is Left (Impatient) or Preempted.                               *)
(***************************************************************************)
CriticalFailureRows(log) ==
    {k \in Indices(log) : /\ log[k].Profile = "CRITICAL"
                          /\ log[k].Outcome \in {"Left (Impatient)", "Preempted"}}

CriticalFailureAccounting ==
    \A r \in Constructed :
        station[r].kpi_failed_critical = Cardinality(CriticalFailureRows(station[r].agent_log))

\* a CRITICAL truck has left impatient, and the table holds the row of a
\* truck of another profile as well
CriticalLeftAmongOthers ==
    \E r \in Constructed :
        LET log == station[r].agent_log
        IN  /\ station[r].kpi_failed_critical = 1
            /\ \E k \in Indices(log) : /\ log[k].Profile = "CRITICAL"
                                        /\ log[k].Outcome = "Left (Impatient)"
            /\ \E k \in Indices(log) : log[k].Profile # "CRITICAL"

(***************************************************************************)
(* C28.  Initial bid formula: the bid of an agent an arrival creates is    *)
(* base_service_fee + value_of_time * estimated_wait_hours * noise for a   *)
(* noise between 0.9 and 1.1, the wait estimated at 15 minutes for every   *)
(* agent Queuing at the arrival and at 0.1 hour at least; so it is never   *)
(* below base_service_fee.                                                 *)
(***************************************************************************)
\* hundredths of an hour
EstimatedWait(m) ==
    LET wait_h == (Len(Queuing(m)) * 15 * 100) \div 60
    IN  IF wait_h < 10 THEN 10 ELSE wait_h

NoiseOnWaitingCost(m, a) ==
    /\ a.bid >= m.config.base_service_fee
    /\ \E noise \in 90..110 :
          a.bid = m.config.base_service_fee
                    + RoundDiv(a.value_of_time * EstimatedWait(m) * noise, 100)

ArrivalBidsByFormula ==
    \A r \in Constructed :
        (station'[r] # NoModel /\ station'[r].current_id = station[r].current_id + 1) =>
            \A i \in Indices(station'[r].agents) :
                station'[r].agents[i].unique_id = station'[r].current_id
                    => NoiseOnWaitingCost(station[r], station'[r].agents[i])

InitialBidFormula == [][ArrivalBidsByFormula]_vars

(***************************************************************************)
(* C29.  Wait-time counter: an agent is created with wait_time 0; the      *)
(* queue logic changes no wait_time and turns no Charging agent Queuing;   *)
(* the advance of a tick adds one to the wait_time of every agent it finds *)
(* Queuing and leaves that of a Charging agent, which stays Charging; and  *)
(* every Left (Impatient) row is of an agent the advance found Queuing.    *)
(***************************************************************************)
WaitCounted(s, m, n) ==
    /\ \A i \in Indices(m.agents) :
          /\ m.agents[i].unique_id \notin Ids(s.agents) => m.agents[i].wait_time = 0
          /\ n.agents[i].wait_time = m.agents[i].wait_time
          /\ m.agents[i].status = "Charging" => n.agents[i].status = "Charging"
    /\ \A order \in Orderings(Leaving(n)) :
          LET e == schedule_step(n, order)
              rows == NewRows(n, e)
          IN  /\ \A i \in Indices(n.agents), j \in Indices(e.agents) :
                    e.agents[j].unique_id = n.agents[i].unique_id =>
                        IF n.agents[i].status = "Queuing"
                        THEN e.agents[j].wait_time = n.agents[i].wait_time + 1
                        ELSE /\ e.agents[j].wait_time = n.agents[i].wait_time
                             /\ e.agents[j].status = "Charging"
              /\ \A k \in Indices(rows) :
                    rows[k].Outcome = "Left (Impatient)" =>
                        \E i \in Indices(n.agents) :
                            /\ n.agents[i].unique_id = rows[k].ID
                            /\ n.agents[i].status = "Queuing"
                            /\ rows[k].Wait_Time = n.agents[i].wait_time + 1

WaitTimeCounter ==
    \A r \in Constructed :
        \A d \in StepDraws(station[r]) :
            WaitCounted(station[r], BeforeQueueLogic(station[r], d),
                        AfterQueueLogic(station[r], d))

\* a truck that has waited has since charged two ticks or more (it arrived
\* in the first DayArrivalHorizon ticks), and another has left impatient
ChargesAfterWait ==
    \E r \in Constructed :
        LET m == station[r]
        IN  /\ Rows(m.agent_log, "Left (Impatient)") # {}
            /\ \E a \in Range(Charging(m)) :
                  /\ a.wait_time >= 1
                  /\ m.steps - DayArrivalHorizon - a.wait_time >= 2

(***************************************************************************)
(* C30.  Slot-counter bounds: in every state, under either policy, the     *)
(* free spots lie between 0 and the number of chargers, and the agents     *)
(* with status Charging are at most the number of chargers.                *)
(***************************************************************************)
SlotBounds ==
    \A r \in Constructed :
        LET m == station[r]
        IN  /\ 0 <= m.charging_spots
            /\ m.charging_spots <= m.num_chargers
            /\ Len(Charging(m)) <= m.num_chargers

(***************************************************************************)
(* C31.  Work conservation: right after the queue logic of a tick, under   *)
(* FIFO or SIRQ, no spot is free or no agent is Queuing.                   *)
(***************************************************************************)
NoSpotLeftIdle(m, n) ==
    m.strategy \in {"FIFO", "SIRQ"} =>
        n.charging_spots = 0 \/ Queuing(n) = <<>>

WorkConservation == QueueLogicNext(NoSpotLeftIdle)

\* a truck has been promoted out of the queue into a freed spot while
\* another one stayed in the queue
PromotedFromQueue ==
    \E r \in Constructed :
        LET m == station[r]
        IN  \E a \in Range(Charging(m)), q \in Range(Queuing(m)) :
                /\ a.wait_time >= 1
                /\ ChargedOnce(a, m.config)
                /\ q.wait_time >= 1

(***************************************************************************)
(* C32.  Critical minimum blocks preemption: under SIRQ, when the lowest   *)
(* bid among the agents Charging at the preemption check is the bid of a   *)
(* CRITICAL agent, the queue logic of the tick preempts nobody, whatever   *)
(* the bids of the other chargers.                                         *)
(***************************************************************************)
CriticalIsLowest(chargers) ==
    \E c \in Range(chargers) :
        /\ c.profile_type = "CRITICAL"
        /\ \A o \in Range(chargers) : o.profile_type # "CRITICAL" => c.bid < o.bid

ChargingAtCheck(m) ==
    Charging([m EXCEPT !.agents =
                 SetCharging(m.agents, Ids(Admitted(m, ByBidReverse(Queuing(m)))))])

CriticalBlocks(m, n) ==
    (m.strategy = "SIRQ" /\ CriticalIsLowest(ChargingAtCheck(m))) =>
        /\ n.kpi_preemptions = m.kpi_preemptions
        /\ NewRows(m, n) = <<>>

CriticalMinimumBlocks == QueueLogicNext(CriticalBlocks)

\* a queuing truck out-bids by the premium both chargers, a CRITICAL one
\* and a dearer one of another profile, and nobody has been preempted
OutBidBehindCritical ==
    \E r \in Constructed :
        LET m == station[r]
        IN  /\ m.strategy = "SIRQ"
            /\ m.kpi_preemptions = 0
            /\ \E c, o \in Range(Charging(m)), q \in Range(Queuing(m)) :
                  /\ c.profile_type = "CRITICAL"
                  /\ o.profile_type # "CRITICAL"
                  /\ c.bid < o.bid
                  /\ OutBids(q, o, m.config)
                  /\ OutBids(q, c, m.config)
                  /\ q.wait_time >= 1

(***************************************************************************)
(* C33.  Freed slots are reused no earlier than the next tick: the agents  *)
(* Charging at the end of a tick were Charging when its queue logic ended, *)
(* so a spot a completion frees in the advance stays free in that tick;    *)
(* and the queue logic of a tick that finds a free spot promotes the first *)
(* choice of the policy, the smallest id under FIFO and the highest bid    *)
(* under SIRQ.                                                             *)
(***************************************************************************)
FirstChoice(m, q) ==
    IF m.strategy = "FIFO"
    THEN \A o \in Range(Queuing(m)) : q.unique_id <= o.unique_id
    ELSE \A o \in Range(Queuing(m)) : o.unique_id # q.unique_id => q.bid > o.bid

PromotesFirstChoice(m, n) ==
    (m.strategy \in {"FIFO", "SIRQ"} /\ m.charging_spots > 0) =>
        \A i \in Indices(m.agents) :
            (m.agents[i].status = "Queuing" /\ FirstChoice(m, m.agents[i]))
                => n.agents[i].status = "Charging"

NoPromotionInAdvance ==
    \A r \in Constructed :
        \A d \in StepDraws(station[r]) :
            TookStep(r, d) =>
                /\ Ids(Charging(station'[r])) \subseteq
                       Ids(Charging(AfterQueueLogic(station[r], d)))
                /\ PromotesFirstChoice(BeforeQueueLogic(station[r], d),
                                       AfterQueueLogic(station[r], d))

FreedSlotReuse == [][NoPromotionInAdvance]_vars

\* a tick has ended with a spot freed by a completion and a truck that has
\* waited through the tick still Queuing
FreedSpotBesideQueue ==
    \E r \in Constructed :
        LET m == station[r]
        IN  /\ m.charging_spots >= 1
            /\ m.agent_log # <<>>
            /\ m.agent_log[Len(m.agent_log)].Outcome = "Completed"
            /\ \E q \in Range(Queuing(m)) : q.wait_time >= 1

\* the truck left Queuing beside the freed spot charges a tick later
ReusedNextTick ==
    \E r \in Constructed :
        LET m == station[r]
        IN  /\ Rows(m.agent_log, "Completed") # {}
            /\ \E a \in Range(Charging(m)) :
                  a.wait_time >= 1 /\ ChargedOnce(a, m.config)

(***************************************************************************)
(* C34.  Every agent eventually leaves: while steps keep being taken,      *)
(* every agent that enters the schedule leaves it, and has then exactly    *)
(* one row of the departure table, whose outcome is Completed, Preempted   *)
(* or Left (Impatient); no agent stays Queuing or Charging forever.        *)
(***************************************************************************)
InSchedule(id) == \E r \in Constructed : id \in Ids(station[r].agents)

Outcomes == {"Completed", "Preempted", "Left (Impatient)"}

RowsOf(log, id) == {i \in Indices(log) : log[i].ID = id}

LeftWithOneOutcome(id) ==
    \E r \in Constructed :
        LET log == station[r].agent_log
        IN  /\ id \notin Ids(station[r].agents)
            /\ Cardinality(RowsOf(log, id)) = 1
            /\ \A i \in RowsOf(log, id) : log[i].Outcome \in Outcomes

EveryAgentLeaves == \A id \in 1..MaxLiveAgents : InSchedule(id) ~> LeftWithOneOutcome(id)

\* the part of C34 that asks no more than the leaving
NoAgentStaysForever == \A id \in 1..MaxLiveAgents : InSchedule(id) ~> ~InSchedule(id)

\* C34 of the stations that never preempt
FifoAgentLeaves ==
    \A id \in 1..MaxLiveAgents :
        (InSchedule(id) /\ \A r \in Constructed : station[r].strategy = "FIFO")
            ~> LeftWithOneOutcome(id)

\* a truck has left the schedule with a Preempted row and a Completed row
LeftWithTwoOutcomes ==
    \E r \in Constructed :
        LET log == station[r].agent_log
        IN  \E i, j \in Indices(log) :
                /\ log[i].ID = log[j].ID
                /\ log[i].Outcome = "Preempted"
                /\ log[j].Outcome = "Completed"
                /\ log[i].ID \notin Ids(station[r].agents)

=============================================================================
